---- MODULE Spec2Model ----
(***************************************************************************)
(* The 'Benchmark models' pipeline of the TF.js Layers benchmarks          *)
(* (src/integration_tests/benchmarks/types.ts, lines 202-472).             *)
(*                                                                         *)
(* One run of the jasmine test is one behaviour.  pc is the position of    *)
(* the async test body; every awaited external call (datastore, fetch,     *)
(* model load, predict, fit, data sync) either resolves or rejects, and a  *)
(* rejection ends the run (there is no try/catch anywhere in the test).    *)
(*                                                                         *)
(* Numbers: batchSize and endingTimestampMs are JavaScript numbers and may *)
(* be fractional.  They are held in units of one half, so 2 stands for     *)
(* 1.0, 3 for 1.5 and 1 for 0.5.  Iteration counts are whole numbers.      *)
(***************************************************************************)
EXTENDS Integers, Sequences, FiniteSets, TLC

VARIABLES
  pc,                \* position in the test body
  error,             \* what ended the run when pc = "failed"
  benchmarksJson,    \* the document served at BENCHMARKS_JSON_URL
  suiteLog,          \* the parsed SuiteLog object (mutable heap object)
  firestore,         \* the remote datastore
  requests,          \* the datastore calls made so far, in order
  console,           \* console.log (line 358) and console.warn (line 452) lines
  tfjsEnvironmentId, versionSetId, pyEnvironmentId,
  sortedModelNames,
  i, j,              \* loop indices (1-based here)
  model,             \* the model loaded for sortedModelNames[i]
  taskId,
  xs, ys,            \* live tensors held by xs and by ys
  n, ts,             \* loop counter and timings of the predict() loops
  calls,             \* the predict()/fit() calls made for the current pair
  tfjsRun,
  tfjsRuns, pyRuns,
  allocated, released  \* tensors created / disposed so far (tf.memory())

vars == <<pc, error, benchmarksJson, suiteLog, firestore, requests, console,
          tfjsEnvironmentId, versionSetId, pyEnvironmentId, sortedModelNames,
          i, j, model, taskId, xs, ys, n, ts, calls, tfjsRun, tfjsRuns, pyRuns,
          allocated, released>>

---------------------------------------------------------------------------
(* Bounds of the explored inputs.                                          *)

MaxModels == 3
MaxFunctions == 2
MaxWarmUp == 1
MaxBenchmarked == 2

ModelNames == <<"m1", "m2", "m3", "m4", "m5", "m6">>
FunctionNames == {"predict", "fit", "fitDataset"}
\* In halves: -1, 0, 0.5 and 1.
BatchSizes == {-2, 0, 1, 2}
\* In halves: 1.0, 1.5 and 2.0 ms.
Timestamps == {2, 3, 4}
\* Wall-clock durations tf.util.now() - t0 can measure.
Durations == {1, 2}
\* model.inputs.length and model.outputs.length of a loaded topology.
ModelTopologies == {[inputs |-> 1, outputs |-> 1], [inputs |-> 2, outputs |-> 2]}

NoId == <<>>
NoModel == [inputs |-> 0, outputs |-> 0]
UndefinedRun == [undefined |-> TRUE]
NullLog == [data |-> <<>>, environmentInfo |-> "undefined"]

---------------------------------------------------------------------------
(* The SuiteLog documents explored.  data is a sequence in insertion       *)
(* order (the order of for-in and Object.keys); a model's tasks likewise.  *)

Runs(B, W, N, T) ==
  [batchSize: B, numWarmUpIterations: W, numBenchmarkedIterations: N,
   endingTimestampMs: T, taskId: {NoId}, environmentId: {NoId}]

Tasks(F, R, k) ==
  {s \in [1..k -> [functionName: F, run: R]] :
     \A a, b \in 1..k : a # b => s[a].functionName # s[b].functionName}

TaskGroups(F, R, maxK) == UNION {Tasks(F, R, k) : k \in 0..maxK}

SuiteLogsOf(groups, maxM) ==
  UNION {{[data |-> [p \in 1..m |-> [modelName |-> ModelNames[p], tasks |-> g[p]]],
           environmentInfo |-> "python"] : g \in [1..m -> groups]} : m \in 0..maxM}

\* Many models, one predict task at most each, all first timestamps.
ChronologyLogs ==
  SuiteLogsOf(TaskGroups({"predict"}, Runs({2}, {0}, {1}, Timestamps), 1), MaxModels)

\* One model with one task: every function name, batch size and iteration count.
IterationLogs ==
  SuiteLogsOf(TaskGroups(FunctionNames,
                         Runs(BatchSizes, 0..MaxWarmUp, 0..MaxBenchmarked, {2}), 1), 1)

\* One model with several tasks: every function name and batch size.
SequencingLogs ==
  SuiteLogsOf(TaskGroups(FunctionNames, Runs(BatchSizes, {1}, {1}, {2}), MaxFunctions), 1)

SuiteLogs == ChronologyLogs \cup IterationLogs \cup SequencingLogs

---------------------------------------------------------------------------
(* The datastore client ('../firestore', not part of the sources).         *)

DocId(collection, k) == <<collection, k>>

IndexOf(seq, x) ==
  IF \E k \in 1..Len(seq) : seq[k] = x
    THEN CHOOSE k \in 1..Len(seq) : seq[k] = x
    ELSE 0

Upsert(seq, x) == IF IndexOf(seq, x) = 0 THEN Append(seq, x) ELSE seq

addEnvironmentInfoToFirestore(store, info) ==
  [store EXCEPT !.environments = Upsert(@, info)]

addVersionSetToFirestore(store, versionSet) ==
  [store EXCEPT !.versionSets = Upsert(@, versionSet)]

addOrGetTaskId(store, taskType, modelName, functionName) ==
  [store EXCEPT !.tasks = Upsert(@, <<taskType, modelName, functionName>>)]

addBenchmarkRunsToFirestore(store, runs) ==
  [store EXCEPT !.benchmarkRuns = Append(@, runs)]

EnvironmentId(store, info) == DocId("environments", IndexOf(store.environments, info))
VersionSetId(store, versionSet) == DocId("versionSets", IndexOf(store.versionSets, versionSet))
TaskIdOf(store, taskType, modelName, functionName) ==
  DocId("tasks", IndexOf(store.tasks, <<taskType, modelName, functionName>>))

---------------------------------------------------------------------------
(* Helpers of the test file.                                               *)

\* new Date(ms).getTime(): the time value clipped to whole milliseconds.
DateGetTime(t) == t \div 2

\* The comparator with its operands exchanged.
CompareDescending(x, y) == y.timestamp - x.timestamp

\* The comparator of line 236.
Compare(x, y) == x.timestamp - y.timestamp

\* The loop of lines 223-234 without the skip of lines 226-228, a model
\* without functions entered with the timestamp 0.
modelNamesAndTimestampsNoSkip(log) ==
  [k \in 1..Len(log.data) |->
     [modelName |-> log.data[k].modelName,
      timestamp |-> IF Len(log.data[k].tasks) = 0 THEN 0
                    ELSE DateGetTime(log.data[k].tasks[1].run.endingTimestampMs)]]

\* The entries pushed by the loop of lines 223-234.
modelNamesAndTimestamps(log) ==
  LET kept == SelectSeq(log.data, LAMBDA g : Len(g.tasks) # 0)
  IN  [k \in 1..Len(kept) |->
         [modelName |-> kept[k].modelName,
          timestamp |-> DateGetTime(kept[k].tasks[1].run.endingTimestampMs)]]

\* Array.prototype.sort: some ordering of the entries the comparator accepts;
\* entries that compare equal come out in an order the engine chooses.
SortResults(entries) ==
  LET idx == 1..Len(entries)
      perms == {p \in [idx -> idx] : \A a, b \in idx : a # b => p[a] # p[b]}
  IN  {[k \in idx |-> entries[p[k]]] :
         p \in {q \in perms : \A a, b \in idx :
                  a < b => Compare(entries[q[a]], entries[q[b]]) <= 0}}

\* The set of sequences getChronologicalModelNames can return.
getChronologicalModelNames(log) ==
  {[k \in 1..Len(s) |-> s[k].modelName] : s \in SortResults(modelNamesAndTimestamps(log))}

\* Number.isInteger on a number held in halves.
IsInteger(x) == x % 2 = 0

\* checkBatchSize without the Number.isInteger test.
checkBatchSizePositiveOnly(batchSize) == batchSize > 0

\* TRUE when checkBatchSize returns, FALSE when it throws.
checkBatchSize(batchSize) == IsInteger(batchSize) /\ batchSize > 0

\* functionNames.length === 0 (line 362).
NoTaskFound(functionNames) == Len(functionNames) = 0

\* The loop test written n <= limit.
LoopContinuesInclusive(k, limit) == k <= limit

\* The test of the for loops of lines 379 and 385.
LoopContinues(k, limit) == k < limit

---------------------------------------------------------------------------
(* Reading the SuiteLog object.                                            *)

ModelIndex(log, modelName) ==
  CHOOSE k \in 1..Len(log.data) : log.data[k].modelName = modelName

\* suiteLog.data[modelName]
TaskGroupLog(log, modelName) == log.data[ModelIndex(log, modelName)].tasks

\* Object.keys(taskGroupLog)
FunctionNamesOf(taskGroupLog) ==
  [k \in 1..Len(taskGroupLog) |-> taskGroupLog[k].functionName]

\* taskGroupLog[functionName]
RunOf(log, modelName, functionName) ==
  LET g == TaskGroupLog(log, modelName)
  IN  g[CHOOSE k \in 1..Len(g) : g[k].functionName = functionName].run

\* pyRuns holds references to the run objects inside suiteLog.
Deref(log, ref) == RunOf(log, ref.modelName, ref.functionName)

modelName == sortedModelNames[i]
taskGroupLog == TaskGroupLog(suiteLog, modelName)
functionNames == FunctionNamesOf(taskGroupLog)
functionName == functionNames[j]
pyRun == taskGroupLog[j].run
taskType == "model"

\* A model.predict(xs) call and a model.fit(xs, ys, {epochs}) call.
PredictCall(timed) == [kind |-> "predict", timed |-> timed]
FitCall(run, timed) ==
  [kind |-> "fit", timed |-> timed,
   epochs |-> IF timed THEN run.numBenchmarkedIterations ELSE run.numWarmUpIterations]

\* The record of lines 392-406; timesMs summed for math.mean(ts).
Sum(seq) == IF Len(seq) = 0 THEN 0 ELSE
            LET f[k \in 0..Len(seq)] == IF k = 0 THEN 0 ELSE f[k - 1] + seq[k]
            IN  f[Len(seq)]

PredictRun(run, id, times) ==
  [taskId |-> id, taskType |-> taskType, modelName |-> modelName,
   functionName |-> functionName, batchSize |-> run.batchSize,
   versionSetId |-> versionSetId, environmentId |-> tfjsEnvironmentId,
   numWarmUpIterations |-> run.numWarmUpIterations,
   numBenchmarkedIterations |-> run.numBenchmarkedIterations,
   timesMs |-> times,
   averageTimeMs |-> [total |-> Sum(times), count |-> Len(times)]]

\* The record of lines 433-446: t / pyRun.numBenchmarkedIterations.
FitRun(run, id, t) ==
  [taskId |-> id, taskType |-> taskType, modelName |-> modelName,
   functionName |-> functionName, batchSize |-> run.batchSize,
   versionSetId |-> versionSetId, environmentId |-> tfjsEnvironmentId,
   numWarmUpIterations |-> run.numWarmUpIterations,
   numBenchmarkedIterations |-> run.numBenchmarkedIterations,
   averageTimeMs |-> [total |-> t, count |-> run.numBenchmarkedIterations]]

\* Lines 458-459 also stamping the reference record with a new ending time.
AnnotatePyRunRestamped(run, id, environmentId) ==
  [run EXCEPT !.taskId = id, !.environmentId = environmentId,
              !.endingTimestampMs = @ + 2]

\* Line 458 without line 459.
AnnotatePyRunTaskIdOnly(run, id, environmentId) ==
  [run EXCEPT !.taskId = id]

\* Lines 458-459, through the reference pyRun.
AnnotatePyRun(run, id, environmentId) ==
  [run EXCEPT !.taskId = id, !.environmentId = environmentId]

---------------------------------------------------------------------------
(* The test body.                                                          *)

idVars == <<tfjsEnvironmentId, versionSetId, pyEnvironmentId>>
loopVars == <<sortedModelNames, i, j, model, taskId>>
pairVars == <<xs, ys, n, ts, calls, tfjsRun>>
outVars == <<tfjsRuns, pyRuns>>
tensorVars == <<allocated, released>>

Init ==
  /\ benchmarksJson \in SuiteLogs
  /\ pc = "addTfjsEnv"
  /\ error = "none"
  /\ suiteLog = NullLog
  /\ firestore = [environments |-> <<>>, versionSets |-> <<>>, tasks |-> <<>>,
                  benchmarkRuns |-> <<>>]
  /\ requests = <<>>
  /\ console = <<>>
  /\ tfjsEnvironmentId = NoId /\ versionSetId = NoId /\ pyEnvironmentId = NoId
  /\ sortedModelNames = <<>>
  /\ i = 1 /\ j = 1
  /\ model = NoModel
  /\ taskId = NoId
  /\ xs = 0 /\ ys = 0 /\ n = 0 /\ ts = <<>> /\ calls = <<>>
  /\ tfjsRun = UndefinedRun
  /\ tfjsRuns = <<>> /\ pyRuns = <<>>
  /\ allocated = 0 /\ released = 0

\* The exception caught and logged around the loops, the test going on to
\* the write of line 469.
ThrowCaught(kind) == pc' = "write" /\ error' = kind

\* An uncaught exception or rejected promise ends the test.
Throw(kind) == pc' = "failed" /\ error' = kind

\* Lines 329-330.
AddTfjsEnvironment ==
  /\ pc = "addTfjsEnv"
  /\ requests' = Append(requests, "addEnvironmentInfoToFirestore")
  /\ \E ok \in BOOLEAN :
       IF ok
         THEN /\ firestore' = addEnvironmentInfoToFirestore(firestore, "browser")
              /\ tfjsEnvironmentId' = EnvironmentId(firestore', "browser")
              /\ pc' = "addVersionSet"
              /\ error' = error
         ELSE /\ Throw("datastore")
              /\ UNCHANGED <<firestore, tfjsEnvironmentId>>
  /\ UNCHANGED <<benchmarksJson, suiteLog, console, versionSetId, pyEnvironmentId,
                 loopVars, pairVars, outVars, tensorVars>>

\* Line 331.
AddVersionSet ==
  /\ pc = "addVersionSet"
  /\ requests' = Append(requests, "addVersionSetToFirestore")
  /\ \E ok \in BOOLEAN :
       IF ok
         THEN /\ firestore' = addVersionSetToFirestore(firestore, "tf.version")
              /\ versionSetId' = VersionSetId(firestore', "tf.version")
              /\ pc' = "fetch"
              /\ error' = error
         ELSE /\ Throw("datastore")
              /\ UNCHANGED <<firestore, versionSetId>>
  /\ UNCHANGED <<benchmarksJson, suiteLog, console, tfjsEnvironmentId, pyEnvironmentId,
                 loopVars, pairVars, outVars, tensorVars>>

\* Lines 334-335: fetch and parse benchmarks.json.
FetchSuiteLog ==
  /\ pc = "fetch"
  /\ \E ok \in BOOLEAN :
       IF ok
         THEN /\ suiteLog' = benchmarksJson
              /\ pc' = "addPyEnv"
              /\ error' = error
         ELSE /\ Throw("fetch")
              /\ UNCHANGED suiteLog
  /\ UNCHANGED <<benchmarksJson, firestore, requests, console, idVars,
                 loopVars, pairVars, outVars, tensorVars>>

\* Lines 336-338.
AddPyEnvironment ==
  /\ pc = "addPyEnv"
  /\ requests' = Append(requests, "addEnvironmentInfoToFirestore")
  /\ \E ok \in BOOLEAN :
       IF ok
         THEN /\ firestore' = addEnvironmentInfoToFirestore(firestore, suiteLog.environmentInfo)
              /\ pyEnvironmentId' = EnvironmentId(firestore', suiteLog.environmentInfo)
              /\ pc' = "sort"
              /\ error' = error
         ELSE /\ Throw("datastore")
              /\ UNCHANGED <<firestore, pyEnvironmentId>>
  /\ UNCHANGED <<benchmarksJson, suiteLog, console, tfjsEnvironmentId, versionSetId,
                 loopVars, pairVars, outVars, tensorVars>>

\* Lines 346-355: order the models, start the lists and the outer loop.
SortModelNames ==
  /\ pc = "sort"
  /\ sortedModelNames' \in getChronologicalModelNames(suiteLog)
  /\ i' = 1
  /\ tfjsRuns' = <<>> /\ pyRuns' = <<>>
  /\ pc' = IF Len(sortedModelNames') = 0 THEN "write" ELSE "loadModel"
  /\ UNCHANGED <<error, benchmarksJson, suiteLog, firestore, requests, console, idVars,
                 j, model, taskId, pairVars, tensorVars>>

\* Lines 356-365: announce and load the model, list its functions.
LoadModel ==
  /\ pc = "loadModel"
  /\ console' = Append(console, [level |-> "log", modelName |-> modelName,
                                 functionName |-> ""])
  /\ \E ok \in BOOLEAN :
       IF ok
         THEN /\ model' \in ModelTopologies
              /\ IF NoTaskFound(functionNames)
                   THEN /\ Throw("missing-task")
                        /\ j' = j
                   ELSE /\ j' = 1
                        /\ pc' = "taskId"
                        /\ error' = error
         ELSE /\ Throw("loadModel")
              /\ UNCHANGED <<model, j>>
  /\ UNCHANGED <<benchmarksJson, suiteLog, firestore, requests, idVars,
                 sortedModelNames, i, taskId, pairVars, outVars, tensorVars>>

\* Lines 366-370: enter the pair, ask for its task id.
GetTaskId ==
  /\ pc = "taskId"
  /\ requests' = Append(requests, "addOrGetTaskId")
  /\ xs' = 0 /\ ys' = 0 /\ n' = 0 /\ ts' = <<>> /\ calls' = <<>>
  /\ tfjsRun' = UndefinedRun
  /\ \E ok \in BOOLEAN :
       IF ok
         THEN /\ firestore' = addOrGetTaskId(firestore, taskType, modelName, functionName)
              /\ taskId' = TaskIdOf(firestore', taskType, modelName, functionName)
              /\ pc' = "checkBatch"
              /\ error' = error
         ELSE /\ Throw("datastore")
              /\ UNCHANGED <<firestore, taskId>>
  /\ UNCHANGED <<benchmarksJson, suiteLog, console, idVars,
                 sortedModelNames, i, j, model, outVars, tensorVars>>

\* Line 372.
CheckBatchSize ==
  /\ pc = "checkBatch"
  /\ IF checkBatchSize(pyRun.batchSize)
       THEN pc' = "alloc" /\ error' = error
       ELSE Throw("validation")
  /\ UNCHANGED <<benchmarksJson, suiteLog, firestore, requests, console, idVars,
                 loopVars, pairVars, outVars, tensorVars>>

\* Lines 376-377, 411, 451: create xs and ys, branch on the function name.
GetRandomInputsAndOutputs ==
  /\ pc = "alloc"
  /\ xs' = model.inputs
  /\ ys' = model.outputs
  /\ allocated' = allocated + model.inputs + model.outputs
  /\ pc' = CASE functionName = "predict" -> "warmUp"
             [] functionName = "fit" -> "compile"
             [] OTHER -> "skip"
  /\ UNCHANGED <<error, benchmarksJson, suiteLog, firestore, requests, console, idVars,
                 loopVars, n, ts, calls, tfjsRun, outVars, released>>

\* await syncDataAndDispose(model.predict(xs)) (lines 263-272, 380, 387):
\* predict() creates model.outputs tensors or throws; data() resolves for
\* each of them and they are disposed, or one data() rejects and none is.
SyncDataAndDisposePredict(timed, outcome) ==
  /\ calls' = Append(calls, PredictCall(timed))
  /\ CASE outcome = "ok" ->
            /\ allocated' = allocated + model.outputs
            /\ released' = released + model.outputs
            /\ n' = n + 1
            /\ UNCHANGED <<pc, error>>
       [] outcome = "predictThrows" ->
            /\ Throw("predict")
            /\ UNCHANGED <<allocated, released, n>>
       [] outcome = "dataThrows" ->
            /\ allocated' = allocated + model.outputs
            /\ Throw("data")
            /\ UNCHANGED <<released, n>>

\* Lines 378-381.
PredictWarmUp ==
  /\ pc = "warmUp"
  /\ IF LoopContinues(n, pyRun.numWarmUpIterations)
       THEN /\ \E outcome \in {"ok", "predictThrows", "dataThrows"} :
                 SyncDataAndDisposePredict(FALSE, outcome)
            /\ ts' = ts
       ELSE /\ pc' = "benchmark"
            /\ n' = 0
            /\ ts' = <<>>
            /\ UNCHANGED <<error, calls, allocated, released>>
  /\ UNCHANGED <<benchmarksJson, suiteLog, firestore, requests, console, idVars,
                 loopVars, xs, ys, tfjsRun, outVars>>

\* Lines 383-389.
PredictBenchmarked ==
  /\ pc = "benchmark"
  /\ IF LoopContinues(n, pyRun.numBenchmarkedIterations)
       THEN /\ \E outcome \in {"ok", "predictThrows", "dataThrows"} :
                 /\ SyncDataAndDisposePredict(TRUE, outcome)
                 /\ IF outcome = "ok"
                      THEN \E d \in Durations : ts' = Append(ts, d)
                      ELSE ts' = ts
       ELSE /\ pc' = "format"
            /\ UNCHANGED <<error, n, ts, calls, allocated, released>>
  /\ UNCHANGED <<benchmarksJson, suiteLog, firestore, requests, console, idVars,
                 loopVars, xs, ys, tfjsRun, outVars>>

\* Lines 391-410; math.mean throws on an empty array.
FormatPredict ==
  /\ pc = "format"
  /\ IF Len(ts) = 0
       THEN /\ Throw("mean")
            /\ tfjsRun' = tfjsRun
       ELSE /\ tfjsRun' = PredictRun(pyRun, taskId, ts)
            /\ pc' = "dispose"
            /\ error' = error
  /\ UNCHANGED <<benchmarksJson, suiteLog, firestore, requests, console, idVars,
                 loopVars, xs, ys, n, ts, calls, outVars, tensorVars>>

\* Lines 412-416.
FitCompile ==
  /\ pc = "compile"
  /\ \E ok \in BOOLEAN :
       IF ok THEN pc' = "fitWarmUp" /\ error' = error
             ELSE Throw("compile")
  /\ UNCHANGED <<benchmarksJson, suiteLog, firestore, requests, console, idVars,
                 loopVars, pairVars, outVars, tensorVars>>

\* Lines 418-422.
FitWarmUp ==
  /\ pc = "fitWarmUp"
  /\ calls' = Append(calls, FitCall(pyRun, FALSE))
  /\ \E ok \in BOOLEAN :
       IF ok THEN pc' = "fitBenchmark" /\ error' = error
             ELSE Throw("fit")
  /\ UNCHANGED <<benchmarksJson, suiteLog, firestore, requests, console, idVars,
                 loopVars, xs, ys, n, ts, tfjsRun, outVars, tensorVars>>

\* The benchmarked fit() made once per epoch, as the predict() loop is.
FitBenchmarkedPerEpoch ==
  /\ pc = "fitBenchmark"
  /\ IF n < pyRun.numBenchmarkedIterations
       THEN /\ calls' = Append(calls, [kind |-> "fit", timed |-> TRUE, epochs |-> 1])
            /\ n' = n + 1
            /\ UNCHANGED <<pc, error, tfjsRun>>
       ELSE /\ \E t \in Durations : tfjsRun' = FitRun(pyRun, taskId, t)
            /\ pc' = "dispose"
            /\ UNCHANGED <<error, calls, n>>
  /\ UNCHANGED <<benchmarksJson, suiteLog, firestore, requests, console, idVars,
                 loopVars, xs, ys, ts, outVars, tensorVars>>

\* Lines 424-450.
FitBenchmarked ==
  /\ pc = "fitBenchmark"
  /\ calls' = Append(calls, FitCall(pyRun, TRUE))
  /\ \E ok \in BOOLEAN :
       IF ok
         THEN /\ \E t \in Durations : tfjsRun' = FitRun(pyRun, taskId, t)
              /\ pc' = "dispose"
              /\ error' = error
         ELSE /\ Throw("fit")
              /\ tfjsRun' = tfjsRun
  /\ UNCHANGED <<benchmarksJson, suiteLog, firestore, requests, console, idVars,
                 loopVars, xs, ys, n, ts, outVars, tensorVars>>

\* Lines 451-453.
SkipTask ==
  /\ pc = "skip"
  /\ console' = Append(console, [level |-> "warn", modelName |-> modelName,
                                 functionName |-> functionName])
  /\ pc' = "dispose"
  /\ UNCHANGED <<error, benchmarksJson, suiteLog, firestore, requests, idVars,
                 loopVars, pairVars, outVars, tensorVars>>

\* Lines 455-461 and the loop steps of lines 365 and 355.
DisposeAndPush ==
  /\ pc = "dispose"
  /\ released' = released + xs + ys
  /\ xs' = 0 /\ ys' = 0
  /\ tfjsRuns' = Append(tfjsRuns, tfjsRun)
  /\ suiteLog' = [suiteLog EXCEPT
                    !.data[ModelIndex(suiteLog, modelName)].tasks[j].run =
                      AnnotatePyRun(@, taskId, pyEnvironmentId)]
  /\ pyRuns' = Append(pyRuns, [modelName |-> modelName, functionName |-> functionName])
  /\ IF j < Len(functionNames)
       THEN j' = j + 1 /\ i' = i /\ pc' = "taskId"
       ELSE /\ j' = j
            /\ i' = i + 1
            /\ pc' = IF i < Len(sortedModelNames) THEN "loadModel" ELSE "write"
  /\ UNCHANGED <<error, benchmarksJson, firestore, requests, console, idVars,
                 sortedModelNames, model, taskId, n, ts, calls, tfjsRun, allocated>>

\* Lines 467-470.
WriteRuns ==
  /\ pc = "write"
  /\ requests' = Append(requests, "addBenchmarkRunsToFirestore")
  /\ \E ok \in BOOLEAN :
       IF ok
         THEN /\ firestore' = addBenchmarkRunsToFirestore(firestore,
                                [k \in 1..Len(pyRuns) |-> Deref(suiteLog, pyRuns[k])])
              /\ pc' = "done"
              /\ error' = error
         ELSE /\ Throw("datastore")
              /\ firestore' = firestore
  /\ UNCHANGED <<benchmarksJson, suiteLog, console, idVars,
                 loopVars, pairVars, outVars, tensorVars>>

Next ==
  \/ AddTfjsEnvironment
  \/ AddVersionSet
  \/ FetchSuiteLog
  \/ AddPyEnvironment
  \/ SortModelNames
  \/ LoadModel
  \/ GetTaskId
  \/ CheckBatchSize
  \/ GetRandomInputsAndOutputs
  \/ PredictWarmUp
  \/ PredictBenchmarked
  \/ FormatPredict
  \/ FitCompile
  \/ FitWarmUp
  \/ FitBenchmarked
  \/ SkipTask
  \/ DisposeAndPush
  \/ WriteRuns

Spec == Init /\ [][Next]_vars

---------------------------------------------------------------------------
(* Vocabulary of the properties.                                           *)

Range(seq) == {seq[k] : k \in 1..Len(seq)}

PairStages == {"checkBatch", "alloc", "warmUp", "benchmark", "format", "compile",
               "fitWarmUp", "fitBenchmark", "skip", "dispose"}

\* Errors only the body of a (model, function) pair raises after line 370.
PairErrors == {"validation", "predict", "data", "mean", "compile", "fit"}

\* The test is inside a pair, or stopped inside one: i and j name the pair.
PairEntered == pc \in PairStages \/ (pc = "failed" /\ error \in PairErrors)

Loaded == suiteLog # NullLog

\* getChronologicalModelNames has returned.
SortDone ==
  \/ pc \in PairStages \cup {"loadModel", "taskId", "write", "done"}
  \/ pc = "failed" /\ console # <<>>

AllModelNames(log) == {log.data[k].modelName : k \in 1..Len(log.data)}
EmptyModelNames(log) ==
  {log.data[k].modelName : k \in {m \in 1..Len(log.data) : Len(log.data[m].tasks) = 0}}

IsPermutationOf(seq, S) ==
  /\ Range(seq) = S
  /\ \A a, b \in 1..Len(seq) : a # b => seq[a] # seq[b]

FirstEndingTimestampMs(log, name) == TaskGroupLog(log, name)[1].run.endingTimestampMs

\* The models announced on the console (line 358), in order.
ModelLines ==
  LET lines == SelectSeq(console, LAMBDA l : l.level = "log")
  IN  [k \in 1..Len(lines) |-> lines[k].modelName]

ProcessedInOrder ==
  /\ Len(ModelLines) <= Len(sortedModelNames)
  /\ ModelLines = SubSeq(sortedModelNames, 1, Len(ModelLines))

PositiveInteger(halves) == \E k \in 1..halves : halves = 2 * k

Count(seq, timed) == Cardinality({k \in 1..Len(seq) : seq[k].timed = timed})

---------------------------------------------------------------------------
(* C1.                                                                     *)

\* C1 as stated: once the models are ordered, sortedModelNames is a
\* permutation of all the model names of suiteLog.data, ascending by the
\* ending timestamp of each model's first function, and the models are
\* processed in that order.
C1_PermutationOfAllModels ==
  SortDone =>
    /\ IsPermutationOf(sortedModelNames, AllModelNames(suiteLog))
    /\ \A a, b \in 1..Len(sortedModelNames) :
         a < b => FirstEndingTimestampMs(suiteLog, sortedModelNames[a])
                    <= FirstEndingTimestampMs(suiteLog, sortedModelNames[b])
    /\ ProcessedInOrder

\* C1 amended: sortedModelNames is a permutation of the names of the models
\* that have at least one function, ascending by the first function's ending
\* timestamp clipped to whole milliseconds, and the models are processed in
\* that order.
C1_PermutationOfRecordedModels ==
  /\ SortDone =>
       /\ IsPermutationOf(sortedModelNames,
                          AllModelNames(suiteLog) \ EmptyModelNames(suiteLog))
       /\ \A a, b \in 1..Len(sortedModelNames) :
            a < b => DateGetTime(FirstEndingTimestampMs(suiteLog, sortedModelNames[a]))
                       <= DateGetTime(FirstEndingTimestampMs(suiteLog, sortedModelNames[b]))
  /\ ProcessedInOrder

\* A run that finished after the sort moved a later model in front of an
\* earlier one, with a model without functions in the log.
C1_Witness ==
  /\ pc = "done"
  /\ EmptyModelNames(suiteLog) # {}
  /\ ModelLines = sortedModelNames
  /\ \E a, b \in 1..Len(sortedModelNames) :
       /\ a < b
       /\ ModelIndex(suiteLog, sortedModelNames[a]) > ModelIndex(suiteLog, sortedModelNames[b])

---------------------------------------------------------------------------
(* C2.                                                                     *)

---------------------------------------------------------------------------
(* C3.                                                                     *)

\* C3: a pair whose reference batch size is not a positive integer gets no
\* further than checkBatchSize, which throws the validation error; xs and ys
\* are not allocated for it and no predict() or fit() call is made.  The
\* validation error is raised for such pairs only.
C3_InvalidBatchSizeThrowsBeforeAllocation ==
  /\ (PairEntered /\ ~PositiveInteger(pyRun.batchSize)) =>
       /\ pc = "checkBatch" \/ (pc = "failed" /\ error = "validation")
       /\ xs = 0 /\ ys = 0 /\ calls = <<>>
       /\ allocated = released
  /\ error = "validation" => ~PositiveInteger(pyRun.batchSize)

\* The validation error raised for the batch size 0.5.
C3_Witness ==
  /\ pc = "failed" /\ error = "validation"
  /\ pyRun.batchSize = 1
  /\ xs = 0 /\ ys = 0

---------------------------------------------------------------------------
(* C4.                                                                     *)

\* C4: whenever the test is not inside a pair, on the failure path as well
\* as the success path, every tensor created so far has been disposed.
C4_TensorsReleasedWhenPairLeft ==
  pc \notin PairStages => allocated = released

---------------------------------------------------------------------------
(* C5.                                                                     *)

\* C5: when the run is done, exactly one batched write has been made and it
\* holds every collected record, the measured ones (tfjsRuns) and the
\* reference ones (pyRuns).
C5_AllCollectedRunsWritten ==
  pc = "done" =>
    /\ Len(firestore.benchmarkRuns) = 1
    /\ \A k \in 1..Len(pyRuns) :
         Deref(suiteLog, pyRuns[k]) \in Range(firestore.benchmarkRuns[1])
    /\ \A k \in 1..Len(tfjsRuns) :
         tfjsRuns[k] # UndefinedRun => tfjsRuns[k] \in Range(firestore.benchmarkRuns[1])

---------------------------------------------------------------------------
(* C6.                                                                     *)

\* C6: in a predict pair every call is a predict() call, the untimed calls
\* all precede the timed ones, a timed call is made only after
\* numWarmUpIterations untimed ones, and the record built has one timesMs
\* entry per timed call, numBenchmarkedIterations of them.
C6_PredictWarmUpThenTimed ==
  /\ (PairEntered /\ functionName = "predict") =>
       /\ \A k \in 1..Len(calls) : calls[k].kind = "predict"
       /\ \A a, b \in 1..Len(calls) : (a < b /\ calls[a].timed) => calls[b].timed
       /\ Count(calls, FALSE) <= pyRun.numWarmUpIterations
       /\ Count(calls, TRUE) > 0 => Count(calls, FALSE) = pyRun.numWarmUpIterations
       /\ Count(calls, TRUE) <= pyRun.numBenchmarkedIterations
       /\ Len(ts) <= Count(calls, TRUE)
       /\ pc = "dispose" =>
            /\ Count(calls, TRUE) = pyRun.numBenchmarkedIterations
            /\ Len(tfjsRun.timesMs) = pyRun.numBenchmarkedIterations
  /\ \A k \in 1..Len(tfjsRuns) :
       (tfjsRuns[k] # UndefinedRun /\ tfjsRuns[k].functionName = "predict") =>
         Len(tfjsRuns[k].timesMs) = tfjsRuns[k].numBenchmarkedIterations

\* A predict record built after one warm-up call and two timed calls.
C6_Witness ==
  /\ pc = "dispose" /\ functionName = "predict"
  /\ pyRun.numWarmUpIterations = 1
  /\ pyRun.numBenchmarkedIterations = 2
  /\ Len(calls) = 3
  /\ Len(tfjsRun.timesMs) = 2

---------------------------------------------------------------------------
(* C7.                                                                     *)

\* C7: in a fit pair the calls made are, in order, one untimed fit() with
\* numWarmUpIterations epochs and one timed fit() with
\* numBenchmarkedIterations epochs, and both have been made when the record
\* is built.
C7_FitOneWarmUpOneTimed ==
  (PairEntered /\ functionName = "fit") =>
    LET expected == <<[kind |-> "fit", timed |-> FALSE,
                       epochs |-> pyRun.numWarmUpIterations],
                      [kind |-> "fit", timed |-> TRUE,
                       epochs |-> pyRun.numBenchmarkedIterations]>>
    IN  /\ Len(calls) <= 2
        /\ calls = SubSeq(expected, 1, Len(calls))
        /\ pc = "dispose" => Len(calls) = 2

\* A fit record built from a reference run of two benchmarked epochs.
C7_Witness ==
  /\ pc = "dispose" /\ functionName = "fit"
  /\ pyRun.numBenchmarkedIterations = 2
  /\ Count(calls, TRUE) = 1 /\ Count(calls, FALSE) = 1
  /\ tfjsRun # UndefinedRun

---------------------------------------------------------------------------
(* C8.                                                                     *)

\* C8: a pair skipped with a warning adds nothing to tfjsRuns or pyRuns and
\* nothing to the batched write.
C8_SkippedPairContributesNoRecord ==
  /\ \A k \in 1..Len(console) :
       console[k].level = "warn" =>
         [modelName |-> console[k].modelName,
          functionName |-> console[k].functionName] \notin Range(pyRuns)
  /\ \A k \in 1..Len(tfjsRuns) : tfjsRuns[k] # UndefinedRun
  /\ Len(tfjsRuns) = Len(pyRuns)

---------------------------------------------------------------------------
(* C9.                                                                     *)

\* C9 as stated: the SuiteLog object equals the document as loaded.
C9_SuiteLogImmutable ==
  Loaded => suiteLog = benchmarksJson

StripIds(log) ==
  [log EXCEPT !.data =
     [m \in 1..Len(log.data) |->
        [log.data[m] EXCEPT !.tasks =
           [f \in 1..Len(log.data[m].tasks) |->
              [log.data[m].tasks[f] EXCEPT !.run.taskId = NoId,
                                           !.run.environmentId = NoId]]]]]

\* C9 amended: apart from the taskId and environmentId fields of the
\* reference records, the SuiteLog object equals the document as loaded, and
\* the record of a pair that was not pushed to pyRuns is as loaded in every
\* field.
C9_OnlyIdsOfProcessedRunsChange ==
  Loaded =>
    /\ StripIds(suiteLog) = StripIds(benchmarksJson)
    /\ \A m \in 1..Len(suiteLog.data) : \A f \in 1..Len(suiteLog.data[m].tasks) :
         [modelName |-> suiteLog.data[m].modelName,
          functionName |-> suiteLog.data[m].tasks[f].functionName] \notin Range(pyRuns)
           => suiteLog.data[m].tasks[f] = benchmarksJson.data[m].tasks[f]

\* A completed run that left ids in the reference records.
C9_Witness ==
  /\ pc = "done"
  /\ Len(pyRuns) >= 2
  /\ suiteLog # benchmarksJson

---------------------------------------------------------------------------
(* C10.                                                                    *)

\* C10: every reference record pushed to pyRuns, and so every record of the
\* batched write, carries the task id the datastore holds for its own
\* (taskType, modelName, functionName) triple, asked for beforehand, and the
\* environment id the datastore returned for the reference environment.
C10_WrittenRunsCarryDatastoreIds ==
  /\ \A k \in 1..Len(pyRuns) :
       LET r == Deref(suiteLog, pyRuns[k])
       IN  /\ <<taskType, pyRuns[k].modelName, pyRuns[k].functionName>>
                \in Range(firestore.tasks)
           /\ r.taskId = TaskIdOf(firestore, taskType, pyRuns[k].modelName,
                                  pyRuns[k].functionName)
           /\ suiteLog.environmentInfo \in Range(firestore.environments)
           /\ r.environmentId = EnvironmentId(firestore, suiteLog.environmentInfo)
  /\ Len(pyRuns) <= Cardinality({k \in 1..Len(requests) : requests[k] = "addOrGetTaskId"})
  /\ pc = "done" =>
       firestore.benchmarkRuns = <<[k \in 1..Len(pyRuns) |-> Deref(suiteLog, pyRuns[k])]>>

\* A batched write of at least two records.
C10_Witness ==
  /\ pc = "done"
  /\ Len(firestore.benchmarkRuns) = 1
  /\ Len(firestore.benchmarkRuns[1]) >= 2

---------------------------------------------------------------------------
(* C11.                                                                    *)

\* C11: every step of the test is taken with no failure behind it, so after
\* a failure no pair is processed, no operation is attempted again and no
\* datastore call is made; and the step that fails ends the run with no
\* batch of run records written.
C11_FailureIsFatal ==
  [][/\ error = "none"
     /\ error' # "none" => (pc' = "failed" /\ firestore'.benchmarkRuns = <<>>)]_vars

\* A run stopped by a failure inside a pair after an earlier pair was
\* collected, with nothing written.
C11_Witness ==
  /\ pc = "failed" /\ error \in PairErrors
  /\ Len(pyRuns) >= 1 /\ Len(tfjsRuns) >= 1
  /\ firestore.benchmarkRuns = <<>>

====
